---- MODULE Spec2Model ----
(***************************************************************************)
(* Model of the mod-side-checker pipeline (src/src/checker.py):            *)
(*   - get_mod_environment: one registry lookup with its soft failures,    *)
(*   - the partitioning step of process_mods,                              *)
(*   - process_mod_batch run by the pool's worker threads,                 *)
(*   - process_mods on the main thread: submit, as_completed, the          *)
(*     KeyboardInterrupt path, the finally block and the return value.     *)
(*                                                                         *)
(* Strings that the code splits on "/" (paths, download URLs) are held as  *)
(* the sequence of their "/"-separated segments, so "" is <<"">> (what     *)
(* "".split("/") gives) and "mods/a.jar" is <<"mods", "a.jar">>.           *)
(***************************************************************************)
EXTENDS Integers, Sequences, FiniteSets, TLC

VARIABLES
    \* ---- ModChecker fields (checker.py 31-37)
    data,            \* self.data['files'], the manifest's list of entries
    processed_mods,  \* self.processed_mods, a set of names
    stop_event,      \* self.stop_event (threading.Event), TRUE when set
    progress_lock,   \* self.progress_lock: 0 when free, else the holding task
    \* ---- locals of process_mods on the main thread (checker.py 179-277)
    mpc,             \* where the main thread is
    max_threads,     \* the argument of the running call
    mod_batches,     \* the batches, after the merge of the last two chunks
    results,         \* the merged result list
    was_interrupted, \* the local flag of the same name
    collected,       \* the futures as_completed has already yielded
    bars_closed,     \* TRUE once the finally block closed the progress bars
    ret,             \* how the last call of process_mods ended
    runs,            \* number of process_mods calls started so far
    \* ---- one task per batch, run by a pool thread (checker.py 100-148)
    wpc,             \* where the task is
    idx,             \* 1-based index of the batch item the loop is at
    out,             \* the task's local list `results`
    cur,             \* the loop body's locals: name, download_url
    bar_n,           \* progress_bar.n of the task's bar
    named,           \* TRUE once the task's local `name` is bound
    inserted,        \* number of processed_mods.add calls the task has made
    \* ---- get_mod_environment call frames, per caller (checker.py 48-98)
    env,
    \* ---- the call frame of FileManager.save_filtered_list (file_manager.py
    \*      184-214), with the rows it wrote
    save,
    \* ---- history, for stating the claims
    snapshot,        \* the tasks' local result lists when the interrupt hit
    stop_at_start,   \* stop_event as the running call of process_mods found it
    last_call        \* the frame of the direct lookup that returned last

vars == <<data, processed_mods, stop_event, progress_lock, mpc, max_threads,
          mod_batches, results, was_interrupted, collected, bars_closed, ret,
          runs, wpc, idx, out, cur, bar_n, named, inserted, env, save,
          snapshot, stop_at_start, last_call>>

objVars  == <<data, processed_mods, stop_event, progress_lock>>
mainVars == <<mpc, max_threads, mod_batches, results, was_interrupted,
              collected, bars_closed, ret, runs>>
taskVars == <<wpc, idx, out, cur, bar_n, named, inserted>>
histVars == <<snapshot, stop_at_start, last_call>>

-----------------------------------------------------------------------------
(* Bounds of the model.                                                    *)

MaxItems == 3        \* longest manifest of the concurrent specification
MaxThreads == 2      \* largest max_threads of the concurrent specification
MaxRuns == 2         \* process_mods calls on one ModChecker
MaxPartLen == 8      \* longest manifest of the partitioning specification
MaxPartThreads == 5  \* largest max_threads of the partitioning specification
MaxRows == 5         \* longest result table of the export specification
MaxLiveItems == 2    \* longest manifest of the specification with fairness

-----------------------------------------------------------------------------
(* Values.                                                                 *)

Min(a, b) == IF a < b THEN a ELSE b

EmptyStr == <<"">>   \* the string "", as its segments
NoneRef == <<>>      \* Python's None where a string is expected

HTTP_OK == 200

(* Manifest entries.  An entry is a mapping with optional keys 'path' and  *)
(* 'downloads'; the last one is an entry that is no mapping at all.        *)
ModA == [path |-> <<"mods", "a.jar">>,
         downloads |-> << <<"cdn", "data", "P1", "a.jar">> >>]
ModA2 == [path |-> <<"alt", "a.jar">>,
          downloads |-> << <<"cdn", "data", "P2">>, <<"mirror", "a.jar">> >>]
ModNoPath == [downloads |-> <<>>]
ModBad == [malformed |-> TRUE]

Entries == {ModA, ModA2, ModNoPath, ModBad}

RECURSIVE SeqsUpTo(_, _)
SeqsUpTo(S, n) ==
    IF n = 0 THEN {<<>>}
    ELSE LET shorter == SeqsUpTo(S, n - 1)
         IN  shorter \cup {Append(s, x) : s \in {t \in shorter : Len(t) = n - 1}, x \in S}

RECURSIVE Concat(_)
Concat(ss) == IF ss = <<>> THEN <<>> ELSE Head(ss) \o Concat(Tail(ss))

-----------------------------------------------------------------------------
(* The partitioning step of process_mods (checker.py 195-208).             *)

\* total_mods // max_threads; range(0, total_mods, 0) raises ValueError
PartitionRaises(items, n) == Len(items) \div n = 0

\* [mods_list[i:i + batch_size] for i in range(0, total_mods, batch_size)]
Chunks(items, batch_size) ==
    LET total == Len(items)
        count == (total + batch_size - 1) \div batch_size
    IN  [k \in 1..count |->
            SubSeq(items, (k - 1) * batch_size + 1, Min(k * batch_size, total))]

\* the merge without the extend: the last chunk is popped and lost
MergeLastTwo_DropsLast(b) == SubSeq(b, 1, Len(b) - 1)

\* mod_batches[-2].extend(mod_batches[-1]); mod_batches.pop()
MergeLastTwo(b) ==
    LET m == Len(b)
    IN  [k \in 1..(m - 1) |-> IF k = m - 1 THEN b[m - 1] \o b[m] ELSE b[k]]

Partition(items, n) ==
    LET chunks == Chunks(items, Len(items) \div n)
    IN  IF Len(chunks) > n THEN MergeLastTwo(chunks) ELSE chunks

-----------------------------------------------------------------------------
(* get_mod_environment (checker.py 48-98), the pure parts.                 *)

SideValues == {"required", "optional", "unsupported", "unknown"}

\* next((parts[i + 1] for i, part in enumerate(parts) if part == 'data'), None)
\* on download_url.split('/'): "exc" is the AttributeError of None.split or
\* the IndexError of parts[i + 1] when the marker is the last segment.
KeyLookup(download_url) ==
    IF download_url = NoneRef THEN [kind |-> "exc"]
    ELSE LET hits == {i \in 1..Len(download_url) : download_url[i] = "data"}
         IN  IF hits = {} THEN [kind |-> "none"]
             ELSE LET i == CHOOSE h \in hits : \A g \in hits : h <= g
                  IN  IF i = Len(download_url) THEN [kind |-> "exc"]
                      ELSE [kind |-> "key", id |-> download_url[i + 1]]

\* `if not project_id`
NoProjectId(k) == k.kind = "none" \/ (k.kind = "key" /\ k.id = "")

\* project_data.get(key, 'unknown')
BodyGet(body, key) == IF key \in DOMAIN body THEN body[key] ELSE "unknown"

\* the chain with the two middle results exchanged
MapSides_Exchanged(client_side, server_side) ==
    IF client_side = "required" /\ server_side = "required" THEN "Both"
    ELSE IF client_side = "required" THEN "Server"
    ELSE IF server_side = "required" THEN "Client"
    ELSE IF client_side = "optional" /\ server_side = "optional" THEN "Optional"
    ELSE "Client: " \o client_side \o ", Server: " \o server_side

\* the if/elif chain of lines 84-93
MapSides(client_side, server_side) ==
    IF client_side = "required" /\ server_side = "required" THEN "Both"
    ELSE IF client_side = "required" THEN "Client"
    ELSE IF server_side = "required" THEN "Server"
    ELSE IF client_side = "optional" /\ server_side = "optional" THEN "Optional"
    ELSE "Client: " \o client_side \o ", Server: " \o server_side

\* a handler that lets the exception leave get_mod_environment
ExceptHandler_Reraises == [pc |-> "raised", ret |-> "none"]

\* what the `except Exception` handler of lines 96-98 makes of the call
ExceptHandler == [pc |-> "ret", ret |-> "Unknown"]

\* lines 79-95, run once the request has returned and the delay is over;
\* a body that is no JSON makes response.json() raise
StatusResult(resp) ==
    IF resp.status = HTTP_OK
    THEN IF "invalid" \in DOMAIN resp.body THEN ExceptHandler
         ELSE [pc |-> "ret",
               ret |-> MapSides(BodyGet(resp.body, "client_side"),
                                BodyGet(resp.body, "server_side"))]
    ELSE [pc |-> "ret", ret |-> "Unknown"]

Bodies ==
    {[client_side |-> c, server_side |-> s] : c \in SideValues, s \in SideValues}
    \cup {[client_side |-> c] : c \in SideValues}
    \cup {[server_side |-> s] : s \in SideValues}

InvalidBody == [invalid |-> TRUE]   \* a body response.json() cannot parse

Raises == [kind |-> "raise", status |-> 0, body |-> InvalidBody]
NotFound == [kind |-> "http", status |-> 404, body |-> InvalidBody]
Http(st, b) == [kind |-> "http", status |-> st, body |-> b]

\* every answer of the registry the lookup specification draws from
AllResponses ==
    {Raises, NotFound, Http(HTTP_OK, InvalidBody)} \cup {Http(HTTP_OK, b) : b \in Bodies}

\* the answers the concurrent specification draws from
RunResponses ==
    {Raises, NotFound, Http(HTTP_OK, [client_side |-> "required", server_side |-> "required"])}

NoResp == [kind |-> "none", status |-> 0, body |-> InvalidBody]

\* a call frame: no call in progress
NoCall == [pc |-> "none", url |-> NoneRef, resp |-> NoResp,
           requests |-> 0, delays |-> 0, ret |-> "none"]

NewCall(download_url) == [NoCall EXCEPT !.pc = "entry", !.url = download_url]

-----------------------------------------------------------------------------
(* get_mod_environment as steps of its caller c (a pool task, or caller 0: *)
(* a direct call from outside process_mods).                               *)

\* lines 58-74: the stop check, the key lookup, and the request going out
EnvEnter(c) ==
    /\ env[c].pc = "entry"
    /\ LET k == KeyLookup(env[c].url)
       IN  env' = [env EXCEPT ![c] =
               IF stop_event THEN [@ EXCEPT !.pc = "ret", !.ret = "Unknown"]
               ELSE IF k.kind = "exc"
                    THEN [@ EXCEPT !.pc = ExceptHandler.pc, !.ret = ExceptHandler.ret]
               ELSE IF NoProjectId(k) THEN [@ EXCEPT !.pc = "ret", !.ret = "Unknown"]
               ELSE [@ EXCEPT !.pc = "request", !.requests = @ + 1]]

\* a client that sends the request once more after a failure
EnvRespond_Retries(c, answers) ==
    /\ env[c].pc = "request"
    /\ \E r \in answers :
          env' = [env EXCEPT ![c] =
              IF r.kind = "raise"
              THEN IF @.requests < 2
                   THEN [@ EXCEPT !.requests = @ + 1]
                   ELSE [@ EXCEPT !.pc = ExceptHandler.pc, !.ret = ExceptHandler.ret]
              ELSE [@ EXCEPT !.pc = "sleep", !.resp = r]]

\* line 74: requests.get returns a response, or raises into lines 96-98
EnvRespond(c, answers) ==
    /\ env[c].pc = "request"
    /\ \E r \in answers :
          env' = [env EXCEPT ![c] =
              IF r.kind = "raise"
              THEN [@ EXCEPT !.pc = ExceptHandler.pc, !.ret = ExceptHandler.ret]
              ELSE [@ EXCEPT !.pc = "sleep", !.resp = r]]

\* a lookup that maps the status only while no earlier lookup has returned
EnvWake_FirstOnly(c) ==
    /\ env[c].pc = "sleep"
    /\ LET after == IF last_call.pc = "ret" THEN [pc |-> "ret", ret |-> "Unknown"]
                    ELSE StatusResult(env[c].resp)
       IN  env' = [env EXCEPT ![c] =
               [@ EXCEPT !.pc = after.pc, !.ret = after.ret, !.delays = @ + 1]]

\* lines 77-95: time.sleep(request_delay) is over, the status is mapped
EnvWake(c) ==
    /\ env[c].pc = "sleep"
    /\ LET after == StatusResult(env[c].resp)
       IN  env' = [env EXCEPT ![c] =
               [@ EXCEPT !.pc = after.pc, !.ret = after.ret, !.delays = @ + 1]]

-----------------------------------------------------------------------------
(* process_mod_batch (checker.py 100-148): task i runs batch mod_batches[i] *)

Tasks == DOMAIN mod_batches

IsMapping(mod) == "malformed" \notin DOMAIN mod

\* mod.get(key, default)
ModGet(mod, key, default) == IF key \in DOMAIN mod THEN mod[key] ELSE default

\* os.path.basename(path) if path else "Unknown"   (lines 119-120)
DerivedName(mod) ==
    LET path == ModGet(mod, "path", EmptyStr)
    IN  IF path # EmptyStr THEN path[Len(path)] ELSE "Unknown"

\* download_links[0] if download_links else ""   (lines 126-127)
DownloadUrl(mod) ==
    LET download_links == ModGet(mod, "downloads", <<>>)
    IN  IF download_links # <<>> THEN download_links[1] ELSE EmptyStr

NoItem == [name |-> "", download_url |-> NoneRef]

Running(i) == wpc[i] \in {"top", "item", "env", "crit", "added"}
Finished(i) == wpc[i] \in {"done", "raised"}

\* a pool thread takes the task from the executor's queue (FIFO); the pool
\* has max_threads threads
TaskStart(i) ==
    /\ wpc[i] = "queued"
    /\ \A j \in Tasks : j < i => wpc[j] # "queued"
    /\ Cardinality({j \in Tasks : Running(j)}) < max_threads
    /\ wpc' = [wpc EXCEPT ![i] = "top"]
    /\ UNCHANGED <<idx, out, cur, bar_n, named, inserted, env>>
    /\ UNCHANGED <<objVars, mainVars, histVars, save>>

\* a loop without the stop check of lines 114-116
LoopTop_IgnoresStop(i) ==
    /\ wpc[i] = "top"
    /\ wpc' = [wpc EXCEPT ![i] =
           IF idx[i] > Len(mod_batches[i]) THEN "done" ELSE "item"]
    /\ UNCHANGED <<idx, out, cur, bar_n, named, inserted, env>>
    /\ UNCHANGED <<objVars, mainVars, histVars, save>>

\* lines 113-116: the for statement and the stop check
LoopTop(i) ==
    /\ wpc[i] = "top"
    /\ wpc' = [wpc EXCEPT ![i] =
           IF idx[i] > Len(mod_batches[i]) \/ stop_event THEN "done" ELSE "item"]
    /\ UNCHANGED <<idx, out, cur, bar_n, named, inserted, env>>
    /\ UNCHANGED <<objVars, mainVars, histVars, save>>

\* the task's next position after an item without result
NextItem(i) == [wpc EXCEPT ![i] = "top"]

\* a skip that advances the progress bar as a processed item does
ItemBegin_SkipCounts(i) ==
    /\ wpc[i] = "item"
    /\ LET mod == mod_batches[i][idx[i]]
       IN  IF ~IsMapping(mod)
           THEN /\ wpc' = IF named[i] THEN NextItem(i) ELSE [wpc EXCEPT ![i] = "raised"]
                /\ idx' = [idx EXCEPT ![i] = @ + 1]
                /\ UNCHANGED <<cur, named, env, bar_n>>
           ELSE IF DerivedName(mod) \in processed_mods
           THEN /\ wpc' = NextItem(i)
                /\ idx' = [idx EXCEPT ![i] = @ + 1]
                /\ named' = [named EXCEPT ![i] = TRUE]
                /\ bar_n' = [bar_n EXCEPT ![i] = @ + 1]
                /\ UNCHANGED <<cur, env>>
           ELSE /\ wpc' = [wpc EXCEPT ![i] = "env"]
                /\ cur' = [cur EXCEPT ![i] =
                       [name |-> DerivedName(mod), download_url |-> DownloadUrl(mod)]]
                /\ env' = [env EXCEPT ![i] = NewCall(DownloadUrl(mod))]
                /\ named' = [named EXCEPT ![i] = TRUE]
                /\ UNCHANGED <<idx, bar_n>>
    /\ UNCHANGED <<out, inserted>>
    /\ UNCHANGED <<objVars, mainVars, histVars, save>>

\* lines 118-128 up to the call, and the handler of lines 145-146 for an
\* entry that is no mapping: its message reads `name`, which is unbound
\* until an earlier item of the batch bound it
ItemBegin(i) ==
    /\ wpc[i] = "item"
    /\ LET mod == mod_batches[i][idx[i]]
       IN  IF ~IsMapping(mod)
           THEN /\ wpc' = IF named[i] THEN NextItem(i) ELSE [wpc EXCEPT ![i] = "raised"]
                /\ idx' = [idx EXCEPT ![i] = @ + 1]
                /\ UNCHANGED <<cur, named, env>>
           ELSE IF DerivedName(mod) \in processed_mods
           THEN /\ wpc' = NextItem(i)
                /\ idx' = [idx EXCEPT ![i] = @ + 1]
                /\ named' = [named EXCEPT ![i] = TRUE]
                /\ UNCHANGED <<cur, env>>
           ELSE /\ wpc' = [wpc EXCEPT ![i] = "env"]
                /\ cur' = [cur EXCEPT ![i] =
                       [name |-> DerivedName(mod), download_url |-> DownloadUrl(mod)]]
                /\ env' = [env EXCEPT ![i] = NewCall(DownloadUrl(mod))]
                /\ named' = [named EXCEPT ![i] = TRUE]
                /\ UNCHANGED idx
    /\ UNCHANGED <<out, bar_n, inserted>>
    /\ UNCHANGED <<objVars, mainVars, histVars, save>>

TaskEnv(i, A) ==
    /\ wpc[i] = "env"
    /\ A
    /\ UNCHANGED <<taskVars, objVars, mainVars, histVars, save>>

\* a `with` that does not wait for the lock to be free
Acquire_NoWait(i) ==
    /\ wpc[i] = "env"
    /\ env[i].pc = "ret"
    /\ progress_lock' = i
    /\ wpc' = [wpc EXCEPT ![i] = "crit"]
    /\ UNCHANGED <<data, processed_mods, stop_event>>
    /\ UNCHANGED <<idx, out, cur, bar_n, named, inserted, env>>
    /\ UNCHANGED <<mainVars, histVars, save>>

\* line 130: get_mod_environment has returned, the lock is acquired
Acquire(i) ==
    /\ wpc[i] = "env"
    /\ env[i].pc = "ret"
    /\ progress_lock = 0
    /\ progress_lock' = i
    /\ wpc' = [wpc EXCEPT ![i] = "crit"]
    /\ UNCHANGED <<data, processed_mods, stop_event>>
    /\ UNCHANGED <<idx, out, cur, bar_n, named, inserted, env>>
    /\ UNCHANGED <<mainVars, histVars, save>>

\* an insert that leaves the set as it was
AddProcessed_Forgets(name) == processed_mods

\* the names in processed_mods after line 131
AddProcessed(name) == processed_mods \cup {name}

\* the insert alone under the lock: the lock is given back before the bar
\* is updated
Critical_ReleasesEarly(i) ==
    /\ wpc[i] = "crit"
    /\ processed_mods' = AddProcessed(cur[i].name)
    /\ inserted' = [inserted EXCEPT ![i] = @ + 1]
    /\ wpc' = [wpc EXCEPT ![i] = "added"]
    /\ progress_lock' = 0
    /\ UNCHANGED <<data, stop_event>>
    /\ UNCHANGED <<idx, out, cur, bar_n, named, env>>
    /\ UNCHANGED <<mainVars, histVars, save>>

\* line 131, inside the with block: self.processed_mods.add(name)
Critical(i) ==
    /\ wpc[i] = "crit"
    /\ processed_mods' = AddProcessed(cur[i].name)
    /\ inserted' = [inserted EXCEPT ![i] = @ + 1]
    /\ wpc' = [wpc EXCEPT ![i] = "added"]
    /\ UNCHANGED <<data, stop_event, progress_lock>>
    /\ UNCHANGED <<idx, out, cur, bar_n, named, env>>
    /\ UNCHANGED <<mainVars, histVars, save>>

\* a with block that never gives the lock back
UpdateBar_KeepsLock(i) ==
    /\ wpc[i] = "added"
    /\ bar_n' = [bar_n EXCEPT ![i] = @ + 1]
    /\ out' = [out EXCEPT ![i] =
           Append(@, [Name |-> cur[i].name, Side |-> env[i].ret,
                      URL |-> cur[i].download_url])]
    /\ cur' = [cur EXCEPT ![i] = NoItem]
    /\ env' = [env EXCEPT ![i] = NoCall]
    /\ idx' = [idx EXCEPT ![i] = @ + 1]
    /\ wpc' = NextItem(i)
    /\ UNCHANGED <<objVars, named, inserted>>
    /\ UNCHANGED <<mainVars, histVars, save>>

\* lines 132-143: progress_bar.update(1) and the bar's colour, the end of
\* the with block (the lock is released) and results.append on the task's
\* own list
UpdateBar(i) ==
    /\ wpc[i] = "added"
    /\ bar_n' = [bar_n EXCEPT ![i] = @ + 1]
    /\ progress_lock' = 0
    /\ out' = [out EXCEPT ![i] =
           Append(@, [Name |-> cur[i].name, Side |-> env[i].ret,
                      URL |-> cur[i].download_url])]
    /\ cur' = [cur EXCEPT ![i] = NoItem]
    /\ env' = [env EXCEPT ![i] = NoCall]
    /\ idx' = [idx EXCEPT ![i] = @ + 1]
    /\ wpc' = NextItem(i)
    /\ UNCHANGED <<data, processed_mods, stop_event, named, inserted>>
    /\ UNCHANGED <<mainVars, histVars, save>>

-----------------------------------------------------------------------------
(* process_mods (checker.py 179-277) on the main thread.                   *)

NotCalled == [kind |-> "not called", rows |-> <<>>]
Pending == [kind |-> "pending", rows |-> <<>>]
Raised(what) == [kind |-> "raised", rows |-> <<what>>]

\* line 274: pd.DataFrame(results) if results else None
ReturnValue(rs) ==
    IF rs # <<>> THEN [kind |-> "DataFrame", rows |-> rs] ELSE [kind |-> "None", rows |-> <<>>]

\* the names in processed_mods once lines 189-196 have run
ProcessedAtStart == processed_mods

\* the stop event once line 190 has run, for a call that finds it set
ClearStop_Keeps == stop_event

\* line 190: self.stop_event.clear()
ClearStop == FALSE

\* One analysis as ModpackCreator.create_modpack runs it (modpack_creator.py
\* 52 and 65): set_data(d), then process_mods(n).  Lines 189-237 of
\* process_mods: the stop event is cleared, the list is partitioned (which
\* raises ValueError to the caller when batch_size is 0), the bars are
\* created and `results` is bound.  The tasks of an earlier call have ended.
StartRun(d, n) ==
    /\ mpc = "idle"
    /\ runs < MaxRuns
    /\ \A i \in Tasks : ~Running(i) /\ wpc[i] # "queued"
    /\ runs' = runs + 1
    /\ data' = d
    /\ stop_event' = ClearStop
    /\ stop_at_start' = stop_event
    /\ processed_mods' = ProcessedAtStart
    /\ max_threads' = n
    /\ was_interrupted' = FALSE
    /\ results' = <<>>
    /\ collected' = {}
    /\ bars_closed' = FALSE
    /\ IF PartitionRaises(d, n)
       THEN /\ mod_batches' = <<>>
            /\ mpc' = "idle"
            /\ ret' = Raised("ValueError")
       ELSE /\ mod_batches' = Partition(d, n)
            /\ mpc' = "submit"
            /\ ret' = Pending
    /\ LET tasks == IF PartitionRaises(d, n) THEN {} ELSE DOMAIN Partition(d, n)
       IN  /\ wpc' = [i \in tasks |-> "unsubmitted"]
           /\ idx' = [i \in tasks |-> 1]
           /\ out' = [i \in tasks |-> <<>>]
           /\ cur' = [i \in tasks |-> NoItem]
           /\ bar_n' = [i \in tasks |-> 0]
           /\ named' = [i \in tasks |-> FALSE]
           /\ inserted' = [i \in tasks |-> 0]
           /\ env' = [c \in {0} \cup tasks |-> NoCall]
           /\ snapshot' = [i \in tasks |-> <<>>]
    /\ UNCHANGED <<progress_lock, save, last_call>>

\* lines 239-247: executor.submit of the next batch
Submit(i) ==
    /\ mpc = "submit"
    /\ i \in Tasks
    /\ wpc[i] = "unsubmitted"
    /\ \A j \in Tasks : j < i => wpc[j] # "unsubmitted"
    /\ wpc' = [wpc EXCEPT ![i] = "queued"]
    /\ mpc' = IF i = Len(mod_batches) THEN "collect" ELSE "submit"
    /\ UNCHANGED <<max_threads, mod_batches, results, was_interrupted, collected,
                   bars_closed, ret, runs>>
    /\ UNCHANGED <<idx, out, cur, bar_n, named, inserted, env>>
    /\ UNCHANGED <<objVars, histVars, save>>

\* line 253 with the batch's results taken last to first
Merged_Reversed(rs, batch_results) ==
    rs \o [k \in 1..Len(batch_results) |-> batch_results[Len(batch_results) + 1 - k]]

\* line 253: results.extend(batch_results)
Merged(rs, batch_results) == rs \o batch_results

\* a loop without the try of lines 251-255: the exception future.result()
\* re-raises leaves process_mods
Collect_Propagates(i) ==
    /\ mpc = "collect"
    /\ i \in Tasks \ collected
    /\ Finished(i)
    /\ collected' = collected \cup {i}
    /\ IF wpc[i] = "done"
       THEN /\ results' = results \o out[i]
            /\ UNCHANGED <<mpc, bars_closed, ret>>
       ELSE /\ mpc' = "idle"
            /\ bars_closed' = TRUE
            /\ ret' = Raised("UnboundLocalError")
            /\ UNCHANGED results
    /\ UNCHANGED <<max_threads, mod_batches, was_interrupted, runs>>
    /\ UNCHANGED <<taskVars, env, objVars, histVars, save>>

\* lines 250-255: as_completed yields a finished future; its result is
\* merged, or its exception is caught and logged
Collect(i) ==
    /\ mpc = "collect"
    /\ i \in Tasks \ collected
    /\ Finished(i)
    /\ collected' = collected \cup {i}
    /\ results' = IF wpc[i] = "done" THEN Merged(results, out[i]) ELSE results
    /\ UNCHANGED <<mpc, max_threads, mod_batches, was_interrupted, bars_closed, ret, runs>>
    /\ UNCHANGED <<taskVars, env, objVars, histVars, save>>

\* the with block ends normally: every future was yielded, the join is
\* immediate
ExitPool ==
    /\ mpc = "collect"
    /\ collected = Tasks
    /\ mpc' = "finally"
    /\ UNCHANGED <<max_threads, mod_batches, results, was_interrupted, collected,
                   bars_closed, ret, runs>>
    /\ UNCHANGED <<taskVars, env, objVars, histVars, save>>

\* KeyboardInterrupt is raised in the main thread inside the with block: the
\* exception leaves through ThreadPoolExecutor.__exit__, which is
\* shutdown(wait=True)
Interrupt ==
    /\ mpc \in {"submit", "collect"}
    /\ mpc' = "unwind"
    /\ snapshot' = out
    /\ UNCHANGED <<max_threads, mod_batches, results, was_interrupted, collected,
                   bars_closed, ret, runs>>
    /\ UNCHANGED <<taskVars, env, objVars, stop_at_start, last_call, save>>

\* shutdown(wait=True) has joined the pool threads: every submitted task ran
\* to its end; the exception reaches line 256
Joined ==
    /\ mpc = "unwind"
    /\ \A i \in Tasks : Finished(i) \/ wpc[i] = "unsubmitted"
    /\ mpc' = "except"
    /\ UNCHANGED <<max_threads, mod_batches, results, was_interrupted, collected,
                   bars_closed, ret, runs>>
    /\ UNCHANGED <<taskVars, env, objVars, histVars, save>>

\* a second KeyboardInterrupt, raised inside the join of shutdown: it leaves
\* __exit__ at once and reaches line 256 while tasks are still running
InterruptJoin ==
    /\ mpc = "unwind"
    /\ \E i \in Tasks : Running(i) \/ wpc[i] = "queued"
    /\ mpc' = "except"
    /\ UNCHANGED <<max_threads, mod_batches, results, was_interrupted, collected,
                   bars_closed, ret, runs>>
    /\ UNCHANGED <<taskVars, env, objVars, histVars, save>>

\* whether line 260 sets the stop event
SetsStop == TRUE

\* an except clause that ends in `raise`: the interrupt leaves process_mods
\* through the finally block
Except_Reraises ==
    /\ mpc = "except"
    /\ was_interrupted' = TRUE
    /\ stop_event' = TRUE
    /\ bars_closed' = TRUE
    /\ ret' = Raised("KeyboardInterrupt")
    /\ mpc' = "idle"
    /\ UNCHANGED <<data, processed_mods, progress_lock>>
    /\ UNCHANGED <<max_threads, mod_batches, results, collected, runs>>
    /\ UNCHANGED <<taskVars, env, histVars, save>>

\* lines 256-261
Except ==
    /\ mpc = "except"
    /\ was_interrupted' = TRUE
    /\ stop_event' = (stop_event \/ SetsStop)
    /\ mpc' = "finally"
    /\ UNCHANGED <<data, processed_mods, progress_lock>>
    /\ UNCHANGED <<max_threads, mod_batches, results, collected, bars_closed, ret, runs>>
    /\ UNCHANGED <<taskVars, env, histVars, save>>

\* lines 262-277: the bars are closed and the value is returned
FinallyReturn ==
    /\ mpc = "finally"
    /\ bars_closed' = TRUE
    /\ ret' = ReturnValue(results)
    /\ mpc' = "idle"
    /\ UNCHANGED <<max_threads, mod_batches, results, was_interrupted, collected, runs>>
    /\ UNCHANGED <<taskVars, env, objVars, histVars, save>>

-----------------------------------------------------------------------------
(* The concurrent specification: calls of process_mods on one ModChecker.  *)

Manifests == SeqsUpTo(Entries, MaxItems)

\* no export is under way
NoSave == [pc |-> "none", mods_df |-> <<>>, filter_type |-> "", filename |-> "",
           mods_filtered |-> <<>>]

Idle ==
    /\ processed_mods = {}
    /\ progress_lock = 0
    /\ mpc = "idle"
    /\ max_threads = 0
    /\ mod_batches = <<>>
    /\ results = <<>>
    /\ was_interrupted = FALSE
    /\ collected = {}
    /\ bars_closed = FALSE
    /\ ret = NotCalled
    /\ runs = 0
    /\ wpc = <<>>
    /\ idx = <<>>
    /\ out = <<>>
    /\ cur = <<>>
    /\ bar_n = <<>>
    /\ named = <<>>
    /\ inserted = <<>>
    /\ env = [c \in {0} |-> NoCall]
    /\ snapshot = <<>>
    /\ stop_at_start = FALSE
    /\ last_call = NoCall

\* ModChecker.__init__ (lines 31-37); no manifest is loaded yet
Init ==
    /\ data = <<>>
    /\ stop_event = FALSE
    /\ Idle
    /\ save = NoSave

\* the steps of the pool's threads: process_mod_batch on a batch
WorkerSteps ==
    \/ \E i \in Tasks : TaskStart(i)
    \/ \E i \in Tasks : LoopTop(i)
    \/ \E i \in Tasks : ItemBegin(i)
    \/ \E i \in Tasks : TaskEnv(i, EnvEnter(i))
    \/ \E i \in Tasks : TaskEnv(i, EnvRespond(i, RunResponses))
    \/ \E i \in Tasks : TaskEnv(i, EnvWake(i))
    \/ \E i \in Tasks : Acquire(i)
    \/ \E i \in Tasks : Critical(i)
    \/ \E i \in Tasks : UpdateBar(i)

\* the steps of the main thread inside process_mods
MainSteps ==
    \/ \E i \in Tasks : Submit(i)
    \/ \E i \in Tasks : Collect(i)
    \/ ExitPool
    \/ Joined
    \/ Except
    \/ FinallyReturn

\* the steps of a call under way, with the interrupts that may hit it
RunSteps ==
    \/ WorkerSteps
    \/ MainSteps
    \/ Interrupt
    \/ InterruptJoin

Next ==
    \/ \E d \in Manifests, n \in 1..MaxThreads : StartRun(d, n)
    \/ RunSteps

Spec == Init /\ [][Next]_vars

-----------------------------------------------------------------------------
(* The single-worker specification: process_mods(1) on manifests whose     *)
(* entries all have a missing or an empty path, with different download    *)
(* references.                                                             *)

ModNoPathUrl == [downloads |-> << <<"cdn", "data", "P1", "x.jar">> >>]
ModEmptyPath == [path |-> EmptyStr,
                 downloads |-> << <<"cdn", "data", "P2", "y.jar">> >>]

PathlessEntries == {ModNoPath, ModNoPathUrl, ModEmptyPath}

NextUnknown ==
    \/ \E d \in SeqsUpTo(PathlessEntries, MaxItems) : StartRun(d, 1)
    \/ RunSteps

SpecUnknown == Init /\ [][NextUnknown]_vars

-----------------------------------------------------------------------------
(* The specification with fairness: short manifests, the threads and the   *)
(* main thread keep taking steps, every registry call returns.             *)

LiveEntries == {ModA, ModNoPath, ModBad}

NextLive ==
    \/ \E d \in SeqsUpTo(LiveEntries, MaxLiveItems), n \in 1..MaxThreads : StartRun(d, n)
    \/ RunSteps

\* CPython runs every runnable thread again and again; that requests.get
\* (line 74, called without a timeout) returns or raises is the assumption
\* under which termination is stated
Fairness == WF_vars(WorkerSteps \/ MainSteps)

SpecLive == Init /\ [][NextLive]_vars /\ Fairness

-----------------------------------------------------------------------------
(* The partitioning specification: the first step of process_mods on       *)
(* longer manifests and more threads, no task is run.                      *)

PartEntries == {ModA, ModNoPath}

NextPartition ==
    \E d \in SeqsUpTo(PartEntries, MaxPartLen), n \in 1..MaxPartThreads : StartRun(d, n)

SpecPartition == Init /\ [][NextPartition]_vars

-----------------------------------------------------------------------------
(* The lookup specification: get_mod_environment called directly (caller   *)
(* 0), on every shape of download reference, against every answer of the   *)
(* registry, with the stop event as an earlier run may have left it.       *)

AllUrls ==
    { NoneRef,                                   \* no reference at all
      EmptyStr,                                  \* ""
      <<"cdn", "mods", "a.jar">>,                \* no 'data' segment
      <<"cdn", "data">>,                         \* the marker is the last segment
      <<"cdn", "data", "", "a.jar">>,            \* empty key after the marker
      <<"cdn", "data", "P1", "a.jar">>,
      <<"cdn", "data", "P2">>,
      <<"data", "data">> }                       \* the key is the word 'data'

InitEnv ==
    /\ data = <<>>
    /\ stop_event \in BOOLEAN
    /\ Idle
    /\ save = NoSave

DirectCall(download_url) ==
    /\ mpc = "idle"
    /\ env[0].pc \in {"none", "ret"}
    /\ env' = [env EXCEPT ![0] = NewCall(download_url)]
    /\ last_call' = IF env[0].pc = "ret" THEN env[0] ELSE last_call
    /\ UNCHANGED <<taskVars, objVars, mainVars, snapshot, stop_at_start, save>>

DirectEnv(A) ==
    /\ A
    /\ UNCHANGED <<taskVars, objVars, mainVars, histVars, save>>

NextEnv ==
    \/ \E u \in AllUrls : DirectCall(u)
    \/ DirectEnv(EnvEnter(0))
    \/ DirectEnv(EnvRespond(0, AllResponses))
    \/ DirectEnv(EnvWake(0))

SpecEnv == InitEnv /\ [][NextEnv]_vars

-----------------------------------------------------------------------------
(* The export specification: FileManager.save_filtered_list                *)
(* (file_manager.py 184-214) called on a result table, with each of the    *)
(* filter types its callers pass (main.py 315-326).                        *)

\* the Side values a result row can carry: the returns of
\* get_mod_environment (checker.py 84-98), with one of the fallback strings
TableSides ==
    {"Both", "Client", "Server", "Optional", "Unknown", MapSides("unsupported", "optional")}

\* the rows of a table: process_mod_batch's dicts (checker.py 139-143)
TableRows == {[Name |-> "a.jar", Side |-> sd, URL |-> EmptyStr] : sd \in TableSides}

\* process_mods returns a DataFrame only for a non-empty result list
Tables == SeqsUpTo(TableRows, MaxRows) \ {<<>>}

FilterTypes == {"all", "client", "server", "both"}

\* mods_df[mods_df['Side'] == side]: the rows the boolean mask keeps, in order
WithSide(mods_df, side) ==
    LET keep(row) == row.Side = side
    IN  SelectSeq(mods_df, keep)

\* the branches with `both` also keeping the Optional rows
Filtered_BothKeepsOptional(mods_df, filter_type) ==
    IF filter_type = "all"
    THEN [filename |-> "Lista_Mods_Com_Ambiente.csv", mods_filtered |-> mods_df]
    ELSE IF filter_type = "client"
    THEN [filename |-> "Lista_Mods_Client.csv", mods_filtered |-> WithSide(mods_df, "Client")]
    ELSE IF filter_type = "server"
    THEN [filename |-> "Lista_Mods_Server.csv", mods_filtered |-> WithSide(mods_df, "Server")]
    ELSE [filename |-> "Lista_Mods_Both.csv",
          mods_filtered |-> LET keep(row) == row.Side \in {"Both", "Optional"}
                            IN  SelectSeq(mods_df, keep)]

\* lines 192-206: the file name and the rows to write, by filter type
Filtered(mods_df, filter_type) ==
    IF filter_type = "all"
    THEN [filename |-> "Lista_Mods_Com_Ambiente.csv", mods_filtered |-> mods_df]
    ELSE IF filter_type = "client"
    THEN [filename |-> "Lista_Mods_Client.csv", mods_filtered |-> WithSide(mods_df, "Client")]
    ELSE IF filter_type = "server"
    THEN [filename |-> "Lista_Mods_Server.csv", mods_filtered |-> WithSide(mods_df, "Server")]
    ELSE [filename |-> "Lista_Mods_Both.csv", mods_filtered |-> WithSide(mods_df, "Both")]

\* the call is entered with its arguments
NewSave(mods_df, filter_type) ==
    [NoSave EXCEPT !.pc = "called", !.mods_df = mods_df, !.filter_type = filter_type]

InitSave ==
    /\ data = <<>>
    /\ stop_event = FALSE
    /\ Idle
    /\ \E mods_df \in Tables, filter_type \in FilterTypes :
           save = NewSave(mods_df, filter_type)

\* lines 192-212: the rows are selected and written with to_csv
SaveFilteredList ==
    /\ save.pc = "called"
    /\ LET sel == Filtered(save.mods_df, save.filter_type)
       IN  save' = [save EXCEPT !.pc = "saved", !.filename = sel.filename,
                                !.mods_filtered = sel.mods_filtered]
    /\ UNCHANGED <<taskVars, env, objVars, mainVars, histVars>>

NextSave == SaveFilteredList

SpecSave == InitSave /\ [][NextSave]_vars

-----------------------------------------------------------------------------
(* The claims.                                                             *)

Rows(rs) == {rs[k] : k \in 1..Len(rs)}

\* the results the tasks of the running call have emitted, each with its place
Emitted == UNION {{<<i, k>> : k \in 1..Len(out[i])} : i \in Tasks}

\* C1: in one run of process_mods no two emitted results carry the same
\* Name, whatever the interleaving of the worker threads.
C1_NoTwoResultsWithOneName ==
    \A p \in Emitted, q \in Emitted :
        p # q => out[p[1]][p[2]].Name # out[q[1]][q[2]].Name

\* C2: once the KeyboardInterrupt has been raised inside the pool block, no
\* worker starts a further item of its batch (the stop signal is set before
\* the workers go on).
C2_NoItemStartedAfterInterrupt ==
    [][mpc = "unwind" =>
          \A i \in Tasks : ~(wpc[i] = "top" /\ wpc'[i] = "item")]_vars

\* C3: after a cancelled run the returned collection holds every result a
\* worker had appended to its batch output before the interrupt.
C3_ResultsBeforeInterruptReturned ==
    (mpc = "idle" /\ was_interrupted /\ ret.kind \in {"DataFrame", "None"}) =>
        \A i \in Tasks : Rows(snapshot[i]) \subseteq Rows(ret.rows)

\* C4: with len(items) >= n > 0 the partitioning step yields exactly n batches.
C4_ExactlyNBatches ==
    (mpc = "submit" /\ Len(data) >= max_threads) => Len(mod_batches) = max_threads

\* C5: whenever partitioning completes, the batches concatenated in batch
\* order are the input list: nothing dropped, duplicated or reordered, also
\* after the merge of the last two chunks.
C5_ConcatenationIsInput ==
    mpc = "submit" => Concat(mod_batches) = data

\* C5 witness: a partition in which the last two chunks were merged
C5_Witness ==
    /\ mpc = "submit"
    /\ Len(data) = 5
    /\ max_threads = 2
    /\ Len(mod_batches) = 2
    /\ Len(mod_batches[2]) = 3
    /\ \E k \in 1..4 : data[k] # data[k + 1]

\* C6: with 0 < len(items) < workerCount process_mods does not raise to its
\* caller and partitioning gives at most len(items) batches, none empty.
C6_FewerItemsThanWorkers ==
    (runs > 0 /\ mpc \in {"idle", "submit"} /\ 0 < Len(data) /\ Len(data) < max_threads) =>
        /\ ret.kind # "raised"
        /\ Len(mod_batches) <= Len(data)
        /\ \A i \in Tasks : mod_batches[i] # <<>>

\* C7: names recorded by an earlier run do not make a later run on the same
\* ModChecker skip its items: a run that ends without interrupt and without
\* a failed task returns a result for the name of every well-formed entry.
C7_EveryNameOfTheRunReturned ==
    (/\ mpc = "idle"
     /\ ret.kind \in {"DataFrame", "None"}
     /\ ~was_interrupted
     /\ \A i \in Tasks : wpc[i] = "done") =>
        \A k \in 1..Len(data) :
            IsMapping(data[k]) => \E r \in Rows(ret.rows) : r.Name = DerivedName(data[k])

\* the table of claim C8, written out pair by pair
C8_Table ==
    [c \in SideValues |-> [s \in SideValues |->
        CASE c = "required" /\ s = "required" -> "Both"
          [] c = "required" /\ s # "required" -> "Client"
          [] c # "required" /\ s = "required" -> "Server"
          [] c = "optional" /\ s = "optional" -> "Optional"
          [] c = "optional" /\ s = "unsupported" -> "Client: optional, Server: unsupported"
          [] c = "optional" /\ s = "unknown" -> "Client: optional, Server: unknown"
          [] c = "unsupported" /\ s = "optional" -> "Client: unsupported, Server: optional"
          [] c = "unsupported" /\ s = "unsupported" -> "Client: unsupported, Server: unsupported"
          [] c = "unsupported" /\ s = "unknown" -> "Client: unsupported, Server: unknown"
          [] c = "unknown" /\ s = "optional" -> "Client: unknown, Server: optional"
          [] c = "unknown" /\ s = "unsupported" -> "Client: unknown, Server: unsupported"
          [] c = "unknown" /\ s = "unknown" -> "Client: unknown, Server: unknown"]]

\* a call that has returned after a success status carrying both attributes
ReturnedOnSuccess(f) ==
    /\ f.pc = "ret"
    /\ f.resp.kind = "http"
    /\ f.resp.status = 200
    /\ DOMAIN f.resp.body = {"client_side", "server_side"}

NoKeyDerivable(u) ==
    \/ u = NoneRef
    \/ u = EmptyStr
    \/ \A i \in 1..Len(u) : u[i] # "data"
    \/ (u[Len(u)] = "data" /\ \A i \in 1..(Len(u) - 1) : u[i] # "data")
    \/ \E i \in 1..(Len(u) - 1) :
          u[i] = "data" /\ u[i + 1] = "" /\ \A j \in 1..(i - 1) : u[j] # "data"

\* the request was made and raised or timed out: no response was received
RequestRaised(f) == f.requests = 1 /\ f.resp = NoResp

RequestRefused(f) == f.resp.kind = "http" /\ f.resp.status # 200

\* C9: get_mod_environment never raises past its boundary, and returns
\* Unknown on every failure path: reference absent or empty, no 'data'
\* segment, marker last, empty key, request raising, non-success status.
C9_FailsSoft ==
    \A c \in DOMAIN env :
        /\ env[c].pc # "raised"
        /\ (env[c].pc = "ret" /\
              (NoKeyDerivable(env[c].url) \/ RequestRaised(env[c]) \/ RequestRefused(env[c])))
           => env[c].ret = "Unknown"

\* C9 witness: a call whose request raised has returned Unknown, with the
\* stop event not set
C9_Witness ==
    /\ ~stop_event
    /\ env[0].pc = "ret"
    /\ RequestRaised(env[0])
    /\ env[0].ret = "Unknown"

\* C10: every call that issued the HTTP request has made exactly one delay
\* by the time it returns, whatever the outcome of the request.
C10_OneDelayPerRequest ==
    \A c \in DOMAIN env :
        (env[c].pc = "ret" /\ env[c].requests = 1) => env[c].delays = 1

\* the interrupt hit after some worker had completed an item
CancelledPartWay == \E i \in Tasks : snapshot[i] # <<>>

\* C11: for a run cancelled part-way no exception escapes process_mods, the
\* flag was_interrupted is set, and the call returns no more results than
\* there were items processed when the interrupt was raised.
C11_CancelledRunReturns ==
    /\ (CancelledPartWay /\ mpc \in {"finally", "idle"}) => was_interrupted
    /\ (CancelledPartWay /\ mpc = "idle") =>
          /\ ret.kind \in {"DataFrame", "None"}
          /\ Len(ret.rows) <= Len(Concat(snapshot))

\* C11 witness: two batches, each with an item completed when the interrupt
\* was raised; the call has returned the results merged before it
C11_Witness ==
    /\ mpc = "idle"
    /\ Len(mod_batches) = 2
    /\ \A i \in Tasks : snapshot[i] # <<>>
    /\ was_interrupted
    /\ ret.kind = "DataFrame"
    /\ Len(ret.rows) < Len(Concat(snapshot))

\* C12: the stop event is cleared before any worker of a run starts: from
\* the submissions to the end of the pool block it is not set, so a task
\* that has ended there has gone through its whole batch, also in a run
\* that follows an interrupted one.
C12_StopClearedForTheRun ==
    mpc \in {"submit", "collect", "unwind"} =>
        /\ ~stop_event
        /\ \A i \in Tasks : wpc[i] = "done" => idx[i] = Len(mod_batches[i]) + 1

\* C12 witness: a call that found the stop event set by the interrupted call
\* before it, with a task that has processed its whole batch
C12_Witness ==
    /\ stop_at_start
    /\ mpc = "collect"
    /\ \E i \in Tasks : wpc[i] = "done" /\ Len(out[i]) = Len(mod_batches[i])

\* C13: the number of batches never exceeds the number of pool workers, so
\* that every batch has a worker of its own and none waits for one.
C13_BatchesWithinPool ==
    mpc = "submit" => Len(mod_batches) <= max_threads

\* the tasks inside the with block of lines 130-137
Holders == {i \in Tasks : wpc[i] \in {"crit", "added"}}

\* the task's call of get_mod_environment is under way
InRegistryCall(i) == env[i].pc \in {"entry", "request", "sleep"}

\* C14: at most one worker holds the progress lock, and a worker holds it
\* only between the return of its registry call and the end of the insert
\* and counter update, never during the request or the delay.
C14_LockExclusiveAndShort ==
    /\ Cardinality(Holders) <= 1
    /\ \A i \in Tasks :
          /\ (progress_lock = i) <=> (i \in Holders)
          /\ (i \in Holders) => ~InRegistryCall(i) /\ env[i].pc = "ret"

\* C14 witness: one worker is inside the with block while another has its
\* lookup returned and waits for the lock, in a pool of two
C14_Witness ==
    /\ max_threads = 2
    /\ \E i \in Tasks, j \in Tasks :
          /\ i # j
          /\ progress_lock = i
          /\ wpc[j] = "env"
          /\ env[j].pc = "ret"

\* C15: an exception raised on one item, at any position of the batch, the
\* first included, is caught at the item: the batch task never ends with
\* an exception.
C15_ItemErrorContained ==
    \A i \in Tasks : wpc[i] # "raised"

\* C16: an exception that left a batch task is caught where its future is
\* collected: process_mods does not raise, the other tasks run through
\* their batches, and a run that was not interrupted returns the results of
\* every other batch.
C16_TaskExceptionContained ==
    (\E i \in Tasks : wpc[i] = "raised") =>
        /\ ret.kind # "raised"
        /\ (mpc = "idle" /\ ~was_interrupted) =>
              \A i \in Tasks :
                  wpc[i] = "done" =>
                      /\ idx[i] = Len(mod_batches[i]) + 1
                      /\ Rows(out[i]) \subseteq Rows(ret.rows)

\* C16 witness: a call has returned the results of one batch although the
\* task of another batch raised
C16_Witness ==
    /\ mpc = "idle"
    /\ ~was_interrupted
    /\ ret.kind = "DataFrame"
    /\ \E i \in Tasks, j \in Tasks :
          /\ wpc[i] = "raised"
          /\ wpc[j] = "done"
          /\ out[j] # <<>>
          /\ Rows(out[j]) \subseteq Rows(ret.rows)

\* C17: a call that was not interrupted returns None when its tasks
\* produced no result (a manifest without entries included), and otherwise
\* the collection of exactly the results produced.
C17_NoneOrTheResults ==
    (mpc = "idle" /\ runs > 0 /\ ~was_interrupted) =>
        IF Emitted = {}
        THEN ret.kind = "None"
        ELSE /\ ret.kind = "DataFrame"
             /\ Rows(ret.rows) = {out[p[1]][p[2]] : p \in Emitted}
             /\ Len(ret.rows) = Cardinality(Emitted)

\* C18: when process_mods has returned, normally or after an interrupt, no
\* task of the call is still running or waiting in the pool's queue.
C18_ReturnsAfterWorkers ==
    mpc = "idle" => \A i \in Tasks : ~Running(i) /\ wpc[i] # "queued"

\* the distinct names derived from the entries of a manifest
DerivedNames(d) == {DerivedName(d[k]) : k \in {j \in DOMAIN d : IsMapping(d[j])}}

\* C20: after a full run the processed set holds no more names than the
\* run's input has distinct derived names, also when the run follows a run
\* on a different input.
C20_ProcessedWithinInput ==
    (mpc = "idle" /\ runs > 0 /\ ~was_interrupted /\ ret.kind \in {"DataFrame", "None"}) =>
        Cardinality(processed_mods) <= Cardinality(DerivedNames(data))

\* the Side a filter type selects
SelectedSide == [client |-> "Client", server |-> "Server", both |-> "Both"]

\* the positions of the table whose row has the given Side
Positions(mods_df, side) == {k \in DOMAIN mods_df : mods_df[k].Side = side}

\* the j-th smallest element of a set of positions
Nth(P, j) == CHOOSE k \in P : Cardinality({m \in P : m < k}) = j - 1

\* C19: save_filtered_list with filter client, server or both writes exactly
\* the rows whose Side is Client, Server or Both, each once and in the
\* table's order (no Optional, Unknown or fallback row), and with filter all
\* it writes every row.
C19_WritesTheSelectedRows ==
    save.pc = "saved" =>
        IF save.filter_type = "all"
        THEN save.mods_filtered = save.mods_df
        ELSE LET P == Positions(save.mods_df, SelectedSide[save.filter_type])
             IN  /\ Len(save.mods_filtered) = Cardinality(P)
                 /\ \A j \in 1..Len(save.mods_filtered) :
                        save.mods_filtered[j] = save.mods_df[Nth(P, j)]

\* C19 witness: the table with Sides Client, Server, Both, Optional, Unknown
\* saved with filter both: the one Both row was written
C19_Witness ==
    /\ save.pc = "saved"
    /\ save.filter_type = "both"
    /\ [k \in DOMAIN save.mods_df |-> save.mods_df[k].Side]
          = <<"Client", "Server", "Both", "Optional", "Unknown">>
    /\ Len(save.mods_filtered) = 1
    /\ save.mods_filtered[1].Side = "Both"

\* rs is the tasks' result lists of S, each as one block, in some order
RECURSIVE IsBlocks(_, _)
IsBlocks(rs, S) ==
    IF S = {} THEN rs = <<>>
    ELSE \E i \in S :
             /\ Len(out[i]) <= Len(rs)
             /\ SubSeq(rs, 1, Len(out[i])) = out[i]
             /\ IsBlocks(SubSeq(rs, Len(out[i]) + 1, Len(rs)), S \ {i})

\* the task's results follow the order of its batch: they belong to
\* entries at increasing positions of the batch
InBatchOrder(i) ==
    \E f \in [DOMAIN out[i] -> DOMAIN mod_batches[i]] :
        /\ \A k \in DOMAIN out[i], m \in DOMAIN out[i] : k < m => f[k] < f[m]
        /\ \A k \in DOMAIN out[i] :
              /\ IsMapping(mod_batches[i][f[k]])
              /\ out[i][k].Name = DerivedName(mod_batches[i][f[k]])
              /\ out[i][k].URL = DownloadUrl(mod_batches[i][f[k]])

\* C21: the merged result list is made of the result lists of the batches
\* collected so far, each as one contiguous block whose rows follow the
\* input order of its batch; the returned collection is that list.
C21_BlocksInBatchOrder ==
    /\ IsBlocks(results, {i \in collected : wpc[i] = "done"})
    /\ \A i \in Tasks : InBatchOrder(i)
    /\ (mpc = "idle" /\ ret.kind = "DataFrame") => ret.rows = results

\* C21 witness: two batches were merged in the reverse of their submission
\* order, the second with two results
C21_Witness ==
    /\ mpc = "idle"
    /\ Len(mod_batches) = 2
    /\ out[1] # <<>>
    /\ Len(out[2]) = 2
    /\ out[2][1] # out[2][2]
    /\ ret.kind = "DataFrame"
    /\ ret.rows = out[2] \o out[1]

\* C22: whenever control has left process_mods after the progress bars
\* were created, every bar has been closed and the pool has been joined: no
\* submitted task is still running or queued.
C22_JoinedAndClosedOnExit ==
    (mpc = "idle" /\ runs > 0 /\ mod_batches # <<>>) =>
        /\ bars_closed
        /\ \A i \in Tasks : Finished(i) \/ wpc[i] = "unsubmitted"

C24_StopsAtLoopTop ==
    [][runs' = runs =>
          \A i \in Tasks :
              /\ (wpc[i] = "top" /\ stop_event /\ wpc'[i] # "top") => wpc'[i] = "done"
              /\ wpc[i] = "done" =>
                    /\ wpc'[i] = "done"
                    /\ out'[i] = out[i]
                    /\ env'[i] = env[i]
                    /\ inserted'[i] = inserted[i]
                    /\ bar_n'[i] = bar_n[i]]_vars

\* C24 witness: a worker stopped by the event with items of its batch left,
\* its earlier result still in its list
C24_Witness ==
    /\ stop_event
    /\ \E i \in Tasks :
          /\ wpc[i] = "done"
          /\ idx[i] <= Len(mod_batches[i])
          /\ out[i] # <<>>

\* C25: a call of get_mod_environment issues at most one request, a request
\* that raised or was refused gives Unknown, and the worker records the
\* Side the one call returned and goes on with its next item.
C25_NoRetries ==
    /\ [](\A c \in DOMAIN env :
             /\ env[c].requests <= 1
             /\ (env[c].pc = "ret" /\ (RequestRaised(env[c]) \/ RequestRefused(env[c])))
                => env[c].ret = "Unknown")
    /\ [][\A i \in Tasks :
             (wpc[i] = "added" /\ wpc'[i] # "added") =>
                 /\ wpc'[i] = "top"
                 /\ idx'[i] = idx[i] + 1
                 /\ Len(out'[i]) = Len(out[i]) + 1
                 /\ out'[i][Len(out'[i])].Side = env[i].ret]_vars

\* C25 witness: a worker whose one request raised holds Unknown for the
\* item and has a further item in its batch
C25_Witness ==
    \E i \in Tasks :
        /\ wpc[i] = "added"
        /\ RequestRaised(env[i])
        /\ env[i].ret = "Unknown"
        /\ idx[i] < Len(mod_batches[i])

\* the task is at an entry whose derived name is in processed_mods
AtProcessedName(i) ==
    /\ wpc[i] = "item"
    /\ IsMapping(mod_batches[i][idx[i]])
    /\ DerivedName(mod_batches[i][idx[i]]) \in processed_mods

\* C26: the skip of an entry whose name is already in processed_mods starts
\* no registry call, emits no result and leaves processed_mods and the
\* worker's progress counter as they were; the worker is at its next item.
C26_SkipHasNoEffect ==
    [][\A i \in Tasks :
          (AtProcessedName(i) /\ wpc'[i] # "item") =>
              /\ env'[i] = env[i]
              /\ out'[i] = out[i]
              /\ bar_n'[i] = bar_n[i]
              /\ inserted'[i] = inserted[i]
              /\ processed_mods' = processed_mods
              /\ wpc'[i] = "top"
              /\ idx'[i] = idx[i] + 1]_vars

\* C26 witness: a worker has gone past its first entry, whose name is in
\* processed_mods, without a result and with its counter at 0
C26_Witness ==
    \E i \in Tasks :
        /\ wpc[i] = "top"
        /\ idx[i] = 2
        /\ IsMapping(mod_batches[i][1])
        /\ DerivedName(mod_batches[i][1]) \in processed_mods
        /\ out[i] = <<>>
        /\ bar_n[i] = 0
        /\ env[i] = NoCall

\* C27: a worker's completed count never decreases and never exceeds the
\* size of its batch, and whenever the lock is free it equals the number of
\* names the worker has inserted into processed_mods.
C27_CountMatchesInserts ==
    /\ [](\A i \in Tasks :
             /\ bar_n[i] <= Len(mod_batches[i])
             /\ progress_lock = 0 => bar_n[i] = inserted[i])
    /\ [][runs' = runs => \A i \in Tasks : bar_n'[i] >= bar_n[i]]_vars

\* C27 witness: the lock is free and a worker has inserted and counted
\* two items
C27_Witness ==
    /\ progress_lock = 0
    /\ \E i \in Tasks : bar_n[i] = 2 /\ inserted[i] = 2

\* the main thread is between the KeyboardInterrupt and the next call of
\* process_mods
AfterInterrupt ==
    mpc \in {"unwind", "except", "finally"} \/ (mpc = "idle" /\ was_interrupted)

\* C28: from the interrupt until the next call of process_mods clears the
\* stop event, every call of get_mod_environment that is entered returns
\* Unknown without a request and without a delay.
C28_UnknownAfterInterrupt ==
    [][AfterInterrupt =>
          \A c \in DOMAIN env :
              (env[c].pc = "entry" /\ env'[c].pc # "entry") =>
                  /\ env'[c].pc = "ret"
                  /\ env'[c].ret = "Unknown"
                  /\ env'[c].requests = 0
                  /\ env'[c].delays = 0]_vars

\* the entry has no path, or an empty one
Pathless(mod) == IsMapping(mod) /\ ModGet(mod, "path", EmptyStr) = EmptyStr

\* the positions of the task's results named "Unknown"
UnknownRows(i) == {k \in DOMAIN out[i] : out[i][k].Name = "Unknown"}

\* C29: an entry with a missing or an empty path is processed under the
\* name "Unknown"; once that name is in processed_mods such an entry is
\* skipped without a call and without a result, whatever its download
\* reference; a run of a single worker emits at most one result named
\* "Unknown".
C29_OneUnknownPerSingleWorkerRun ==
    /\ [](\A i \in Tasks :
             /\ (wpc[i] \in {"env", "crit", "added"} /\ Pathless(mod_batches[i][idx[i]]))
                => cur[i].name = "Unknown"
             /\ Len(mod_batches) = 1 => Cardinality(UnknownRows(i)) <= 1)
    /\ [][\A i \in Tasks :
             (/\ wpc[i] = "item"
              /\ Pathless(mod_batches[i][idx[i]])
              /\ "Unknown" \in processed_mods
              /\ wpc'[i] # "item") =>
                 /\ wpc'[i] = "top"
                 /\ out'[i] = out[i]
                 /\ env'[i] = env[i]]_vars

\* C29 witness: the single worker has gone through three entries without
\* path, with three different download references, and has one result
C29_Witness ==
    /\ Len(mod_batches) = 1
    /\ Len(mod_batches[1]) = 3
    /\ \A k \in 1..3 : Pathless(mod_batches[1][k])
    /\ Cardinality({DownloadUrl(mod_batches[1][k]) : k \in 1..3}) = 3
    /\ wpc[1] = "done"
    /\ idx[1] = 4
    /\ Len(out[1]) = 1
    /\ out[1][1].Name = "Unknown"

\* C30: every call of process_mods whose partitioning succeeded returns,
\* and every task handed to the pool comes to its end, whatever the
\* interleaving of the workers on the lock.
C30_EveryRunReturns ==
    /\ (mpc = "submit") ~> (mpc = "idle")
    /\ \A i \in 1..MaxLiveItems :
          (i \in Tasks /\ wpc[i] = "queued") ~> (i \in Tasks /\ Finished(i))

\* C30 witness: a call with two workers, each with a processed item, has
\* returned without an interrupt
C30_Witness ==
    /\ mpc = "idle"
    /\ ~was_interrupted
    /\ Len(mod_batches) = 2
    /\ \A i \in Tasks : wpc[i] = "done" /\ bar_n[i] = 1
    /\ ret.kind = "DataFrame"
    /\ Len(ret.rows) = 2

====
